---- MODULE Spec2Model ----
(***************************************************************************)
(* The PNG chunk codec of pngme: the CRC engine (crc.rs), the chunk type   *)
(* (chunk_type.rs) and the chunk serializer / parser (chunk.rs).           *)
(*                                                                         *)
(* Bytes are the integers 0..255.  A u32 is kept at its width as two       *)
(* 16-bit halves [hi, lo], so that the length field and the CRC cover the  *)
(* whole range 0 .. 2^32-1.                                                *)
(***************************************************************************)
EXTENDS Integers, Sequences, FiniteSets, TLC

\* ------------------------------------------------------------------ bounds
MaxDataLen == 2
MaxExtra == 2
MaxStrLen == 5

\* ------------------------------------------------------- u32 arithmetic
Byte == 0..255

U32(h, l) == [hi |-> h, lo |-> l]

\* u32::from(n) for a u8, and usize -> u32 of a vector length
U32FromInt(n) == U32(n \div 65536, n % 65536)

RECURSIVE BitXor(_, _)
BitXor(a, b) ==
    IF a = 0 THEN b
    ELSE IF b = 0 THEN a
    ELSE ((a + b) % 2) + 2 * BitXor(a \div 2, b \div 2)

U32Xor(a, b) == U32(BitXor(a.hi, b.hi), BitXor(a.lo, b.lo))

\* c >> 1
U32Shr1(c) == U32(c.hi \div 2, (c.lo \div 2) + 32768 * (c.hi % 2))

\* c >> 8
U32Shr8(c) == U32(c.hi \div 256, (c.lo \div 256) + 256 * (c.hi % 256))

\* !c
U32Not(c) == U32(65535 - c.hi, 65535 - c.lo)

\* a > b
U32Gt(a, b) == a.hi > b.hi \/ (a.hi = b.hi /\ a.lo > b.lo)

\* a < b
U32Lt(a, b) == U32Gt(b, a)

\* a + n for a small n, without overflow (the caller has excluded it)
U32Add(a, n) ==
    IF a.lo + n >= 65536 THEN U32(a.hi + 1, a.lo + n - 65536)
    ELSE U32(a.hi, a.lo + n)

\* the u32 value of a buffer length (buffers are far shorter than 2^31)
U32OfLen(n) == U32(n \div 65536, n % 65536)

\* the four bytes in little-endian order
to_le_bytes(c) == <<c.lo % 256, c.lo \div 256, c.hi % 256, c.hi \div 256>>

\* u32::to_be_bytes
to_be_bytes(c) == <<c.hi \div 256, c.hi % 256, c.lo \div 256, c.lo % 256>>

\* u32::from_be_bytes
from_be_bytes(b) == U32(b[1] * 256 + b[2], b[3] * 256 + b[4])

\* ------------------------------------------------------------- crc.rs
Poly == U32(60856, 33568)   \* 0xedb8_8320

RECURSIVE crc_table_loop(_, _)
crc_table_loop(c, rounds) ==
    IF rounds = 0 THEN c
    ELSE IF c.lo % 2 # 0
         THEN crc_table_loop(U32Xor(Poly, U32Shr1(c)), rounds - 1)
         ELSE crc_table_loop(U32Shr1(c), rounds - 1)

crc_table(n) == crc_table_loop(U32FromInt(n), 8)

\* crc_table is a pure function of its u8 argument: its 256 values
CrcTable == [n \in Byte |-> crc_table(n)]

\* an accumulator that starts at zero
Crc_new_zero == U32(0, 0)

Crc_new == U32Not(U32(0, 0))

Crc_get(self) == U32Not(self)

update_byte(self, byte) ==
    LET index == BitXor(self.lo % 256, byte)
    IN  U32Xor(CrcTable[index], U32Shr8(self))

U32Set == [hi : 0..65535, lo : 0..65535]

\* the loop of Crc::update: the accumulator after each byte in turn
update[self \in U32Set, data \in Seq(Byte)] ==
    IF data = <<>> THEN self
    ELSE update[update_byte(self, Head(data)), Tail(data)]

\* ------------------------------------------------------- chunk_type.rs
\* the letter ranges without their first letters
valid_chunk_character_open(value) ==
    (value > 65 /\ value <= 90) \/ (value > 97 /\ value <= 122)

valid_chunk_character(value) ==
    (value >= 65 /\ value <= 90) \/ (value >= 97 /\ value <= 122)

\* the lowercase range without 'a'
is_lowercase_open(value) == value > 97 /\ value <= 122

is_lowercase(value) == value >= 97 /\ value <= 122

ErrInvalidCharacter == "chunk types must be ascii characters"
ErrWrongLength == "Chunk names must have length 4"

Ok(v) == [tag |-> "Ok", val |-> v]
Err(e) == [tag |-> "Err", err |-> e]

ChunkType_new(value) ==
    IF ~(\A i \in 1..4 : valid_chunk_character(value[i]))
    THEN Err(ErrInvalidCharacter)
    ELSE Ok(value)

bytes(self) == self

is_critical(self) == is_lowercase(self[1]) = FALSE

is_public(self) == is_lowercase(self[2]) = FALSE

is_reserved_bit_valid(self) == is_lowercase(self[3]) = FALSE

is_safe_to_copy(self) == is_lowercase(self[4]) = TRUE

is_valid(self) == is_reserved_bit_valid(self)

ChunkType_try_from(value) == ChunkType_new(value)

from_str(str) ==
    IF Len(str) # 4 THEN Err(ErrWrongLength)
    ELSE ChunkType_try_from(str)

\* ------------------------------------------------------------ chunk.rs
Chunk_new(chunk_type, data) == [chunk_type |-> chunk_type, data |-> data]

length(self) == U32FromInt(Len(self.data))

\* a checksum over the type bytes only
crc_type_only(self) == Crc_get(update[Crc_new, bytes(self.chunk_type)])

crc(self) ==
    LET c0 == Crc_new
        c1 == update[c0, bytes(self.chunk_type)]
        c2 == update[c1, self.data]
    IN  Crc_get(c2)

as_bytes(self) ==
    to_be_bytes(length(self)) \o bytes(self.chunk_type) \o self.data
        \o to_be_bytes(crc(self))


\* ------------------------------------------------- chunk.rs: parse path
ErrTooShort == "Too short chunk data"
ErrTooLarge == "Too large length"
ErrLengthExceedsBuffer == "Too large length, larger than remaining data"
ErrCrcMismatch == "Incorrect chunk CRC"
ErrTrailingData == "Trailing data left after chunk"

NoChunk == [chunk_type |-> <<>>, data |-> <<>>]
NoU32 == U32(0, 0)

\* Result<(Chunk, &[u8])> of parse_next and Result<Chunk> of try_from
RetNone == [tag |-> "None", err |-> "", chunk |-> NoChunk, rest |-> <<>>]
RetErr(e) == [tag |-> "Err", err |-> e, chunk |-> NoChunk, rest |-> <<>>]
RetOk(c, r) == [tag |-> "Ok", err |-> "", chunk |-> c, rest |-> r]

\* line 67: length > u32::max_value() - 4
LengthOverflows(len) == U32Gt(len, U32(65535, 65531))

\* line 71: length + 4 < remaining.len()
LengthCheckFails(len, rem) == U32Lt(U32Add(len, 4), U32OfLen(Len(rem)))

\* lines 76-78: the three slices are in bounds iff length + 4 <= remaining.len()
SliceInBounds(len, rem) == ~U32Gt(U32Add(len, 4), U32OfLen(Len(rem)))

\* a comparison of the low halves only
CrcDiffersLow(c, stored) == crc(c).lo # stored.lo

\* line 84: chunk_crc != crc
CrcDiffers(c, stored) == crc(c) # stored

\* ----------------------------------------------------------- inputs
RuSt == <<82, 117, 83, 116>>
Rust == <<82, 117, 115, 116>>
Ru1t == <<82, 117, 49, 116>>
bLOb == <<98, 76, 79, 98>>

\* "This is where your secret message will be!"
Message ==
    <<84, 104, 105, 115, 32, 105, 115, 32, 119, 104, 101, 114, 101, 32,
      121, 111, 117, 114, 32, 115, 101, 99, 114, 101, 116, 32, 109, 101,
      115, 115, 97, 103, 101, 32, 119, 105, 108, 108, 32, 98, 101, 33>>

RECURSIVE SeqsUpTo(_, _)
SeqsUpTo(S, n) ==
    IF n = 0 THEN {<<>>}
    ELSE LET shorter == SeqsUpTo(S, n - 1)
         IN  shorter \cup {Append(q, x) : q \in shorter, x \in S}

ChunkTypes == {RuSt, bLOb}
DataBytes == {0, 255}
Payloads == SeqsUpTo(DataBytes, MaxDataLen) \cup {Message}
Extras == SeqsUpTo(DataBytes, MaxExtra) \ {<<>>}
LengthFields ==
    {<<0, 0, 0, 0>>, <<0, 0, 0, 1>>, <<0, 1, 0, 0>>, <<128, 0, 0, 0>>,
     <<255, 255, 255, 251>>, <<255, 255, 255, 252>>, <<255, 255, 255, 255>>}

\* the edges of the two letter ranges, from both sides
TagBytes == {64, 65, 90, 91, 96, 97, 122, 123}
Strings == SeqsUpTo(TagBytes, MaxStrLen) \cup {RuSt, Rust, Ru1t, bLOb}

\* bit k of byte b flipped
FlipByte(b, k) ==
    LET w == 2 ^ k
    IN  IF (b \div w) % 2 = 1 THEN b - w ELSE b + w

Untouched == [kind |-> "none", pos |-> 0, bit |-> 0]

\* ------------------------------------------------------------- state
VARIABLES
    pc,             \* position of the codec run
    chunk,          \* the Chunk built by Chunk::new
    second,         \* a second Chunk, serialized after the first
    buf,            \* the bytes handed to try_from / parse_next
    made,           \* what was done to the serialized bytes before parsing
    l_length,       \* parse_next: local length
    l_chunk_type,   \* parse_next: local chunk_type
    l_remaining,    \* parse_next: local remaining
    l_data,         \* parse_next: local data
    l_crc,          \* parse_next: local crc
    pn,             \* what parse_next returned
    tf,             \* what try_from returned
    tpc,            \* position of the chunk type run
    str,            \* the string / byte array handed to ChunkType
    ct,             \* Result<ChunkType>
    props           \* the five predicates of the constructed ChunkType

codecVars == <<pc, chunk, second, buf, made, l_length, l_chunk_type,
               l_remaining, l_data, l_crc, pn, tf>>
typeVars == <<tpc, str, ct, props>>
vars == <<pc, chunk, second, buf, made, l_length, l_chunk_type,
          l_remaining, l_data, l_crc, pn, tf, tpc, str, ct, props>>
locals == <<l_length, l_chunk_type, l_remaining, l_data, l_crc>>

NoProps == [critical |-> FALSE, public |-> FALSE, reserved_bit_valid |-> FALSE,
            safe_to_copy |-> FALSE, valid |-> FALSE]
NoResult == [tag |-> "None", err |-> "", val |-> <<>>]
TypeOk(v) == [tag |-> "Ok", err |-> "", val |-> v]
TypeErr(e) == [tag |-> "Err", err |-> e, val |-> <<>>]

CodecIdle ==
    /\ pc = "off" /\ chunk = NoChunk /\ second = NoChunk /\ buf = <<>>
    /\ made = Untouched /\ l_length = NoU32 /\ l_chunk_type = <<>>
    /\ l_remaining = <<>> /\ l_data = <<>> /\ l_crc = NoU32
    /\ pn = RetNone /\ tf = RetNone

TypeIdle == tpc = "off" /\ str = <<>> /\ ct = NoResult /\ props = NoProps

\* ------------------------------------------------------ codec actions
Init ==
    /\ pc = "new" /\ chunk = NoChunk /\ second = NoChunk /\ buf = <<>>
    /\ made = Untouched /\ l_length = NoU32 /\ l_chunk_type = <<>>
    /\ l_remaining = <<>> /\ l_data = <<>> /\ l_crc = NoU32
    /\ pn = RetNone /\ tf = RetNone
    /\ TypeIdle

\* Chunk::new(chunk_type, data), the type made by ChunkType::new
New ==
    /\ pc = "new"
    /\ \E t \in ChunkTypes, d \in Payloads :
          /\ ChunkType_new(t).tag = "Ok"
          /\ chunk' = Chunk_new(ChunkType_new(t).val, d)
    /\ pc' = "built"
    /\ UNCHANGED <<second, buf, made, locals, pn, tf, typeVars>>

\* chunk.as_bytes()
AsBytes ==
    /\ pc = "built"
    /\ buf' = as_bytes(chunk)
    /\ pc' = "input"
    /\ UNCHANGED <<chunk, second, made, locals, pn, tf, typeVars>>

\* one bit of the serialized bytes is flipped
FlipBit ==
    /\ pc = "input" /\ made = Untouched
    /\ \E i \in 1..Len(buf), k \in 0..7 :
          /\ buf' = [buf EXCEPT ![i] = FlipByte(buf[i], k)]
          /\ made' = [kind |-> "flip", pos |-> i, bit |-> k]
    /\ UNCHANGED <<pc, chunk, second, locals, pn, tf, typeVars>>

\* the serialized bytes are cut short
Truncate ==
    /\ pc = "input" /\ made = Untouched
    /\ \E n \in 0..(Len(buf) - 1) :
          /\ buf' = SubSeq(buf, 1, n)
          /\ made' = [kind |-> "truncate", pos |-> n, bit |-> 0]
    /\ UNCHANGED <<pc, chunk, second, locals, pn, tf, typeVars>>

\* extra bytes follow the serialized chunk
AppendExtra ==
    /\ pc = "input" /\ made = Untouched
    /\ \E x \in Extras :
          /\ buf' = buf \o x
          /\ made' = [kind |-> "extra", pos |-> Len(x), bit |-> 0]
    /\ UNCHANGED <<pc, chunk, second, locals, pn, tf, typeVars>>

\* a second serialized chunk follows the first
Concat ==
    /\ pc = "input" /\ made = Untouched
    /\ \E t \in ChunkTypes, d \in Payloads :
          /\ second' = Chunk_new(t, d)
          /\ buf' = buf \o as_bytes(Chunk_new(t, d))
          /\ made' = [kind |-> "concat", pos |-> 0, bit |-> 0]
    /\ UNCHANGED <<pc, chunk, locals, pn, tf, typeVars>>

\* the length field is overwritten
SetLength ==
    /\ pc = "input" /\ made = Untouched
    /\ \E f \in LengthFields :
          /\ f # SubSeq(buf, 1, 4)
          /\ buf' = f \o SubSeq(buf, 5, Len(buf))
          /\ made' = [kind |-> "setlen", pos |-> 0, bit |-> 0]
    /\ UNCHANGED <<pc, chunk, second, locals, pn, tf, typeVars>>

\* parse_next, lines 55-60
CheckSize ==
    /\ pc = "input"
    /\ IF Len(buf) < 12
       THEN /\ pn' = RetErr(ErrTooShort)
            /\ pc' = "returned"
            /\ UNCHANGED locals
       ELSE /\ l_length' = from_be_bytes(SubSeq(buf, 1, 4))
            /\ l_chunk_type' = SubSeq(buf, 5, 8)
            /\ l_remaining' = SubSeq(buf, 9, Len(buf))
            /\ pc' = "p_type"
            /\ UNCHANGED <<l_data, l_crc, pn>>
    /\ UNCHANGED <<chunk, second, buf, made, tf, typeVars>>

\* parse_next, lines 63-64
ParseType ==
    /\ pc = "p_type"
    /\ LET r == ChunkType_new(l_chunk_type)
       IN  IF r.tag = "Err"
           THEN /\ pn' = RetErr(r.err)
                /\ pc' = "returned"
           ELSE /\ pn' = pn
                /\ pc' = "p_length"
    /\ UNCHANGED <<chunk, second, buf, made, locals, tf, typeVars>>

\* parse_next, lines 67-73
CheckLength ==
    /\ pc = "p_length"
    /\ IF LengthOverflows(l_length)
       THEN /\ pn' = RetErr(ErrTooLarge)
            /\ pc' = "returned"
       ELSE IF LengthCheckFails(l_length, l_remaining)
       THEN /\ pn' = RetErr(ErrLengthExceedsBuffer)
            /\ pc' = "returned"
       ELSE /\ pn' = pn
            /\ pc' = "p_slice"
    /\ UNCHANGED <<chunk, second, buf, made, locals, tf, typeVars>>

\* parse_next, lines 76-79: an out-of-range slice panics
Slice ==
    /\ pc = "p_slice"
    /\ IF ~SliceInBounds(l_length, l_remaining)
       THEN /\ pc' = "panic"
            /\ UNCHANGED locals
       ELSE /\ l_data' = SubSeq(l_remaining, 1, l_length.lo)
            /\ l_crc' = from_be_bytes(
                   SubSeq(l_remaining, l_length.lo + 1, l_length.lo + 4))
            /\ l_remaining' =
                   SubSeq(l_remaining, l_length.lo + 5, Len(l_remaining))
            /\ pc' = "p_crc"
            /\ UNCHANGED <<l_length, l_chunk_type>>
    /\ UNCHANGED <<chunk, second, buf, made, pn, tf, typeVars>>

\* parse_next, lines 82-88
CheckCrc ==
    /\ pc = "p_crc"
    /\ LET c == Chunk_new(l_chunk_type, l_data)
       IN  IF CrcDiffers(c, l_crc)
           THEN pn' = RetErr(ErrCrcMismatch)
           ELSE pn' = RetOk(c, l_remaining)
    /\ pc' = "returned"
    /\ UNCHANGED <<chunk, second, buf, made, locals, tf, typeVars>>

\* TryFrom<&[u8]> for Chunk, lines 95-99
TryFrom ==
    /\ pc = "returned"
    /\ IF pn.tag = "Err" THEN tf' = RetErr(pn.err)
       ELSE IF pn.rest # <<>> THEN tf' = RetErr(ErrTrailingData)
       ELSE tf' = RetOk(pn.chunk, <<>>)
    /\ pc' = "done"
    /\ UNCHANGED <<chunk, second, buf, made, locals, pn, typeVars>>

Next ==
    \/ New \/ AsBytes
    \/ FlipBit \/ Truncate \/ AppendExtra \/ Concat \/ SetLength
    \/ CheckSize \/ ParseType \/ CheckLength \/ Slice \/ CheckCrc
    \/ TryFrom

Spec == Init /\ [][Next]_vars

\* ------------------------------------------------- chunk type actions
InitType ==
    /\ CodecIdle
    /\ tpc = "str" /\ str \in Strings /\ ct = NoResult /\ props = NoProps

\* ChunkType::from_str(s)
FromStr ==
    /\ tpc = "str"
    /\ LET r == from_str(str)
       IN  ct' = IF r.tag = "Ok" THEN TypeOk(bytes(r.val)) ELSE TypeErr(r.err)
    /\ tpc' = "made"
    /\ UNCHANGED <<str, props, codecVars>>

\* ChunkType::try_from(value: [u8; 4])
TryFromBytes ==
    /\ tpc = "str" /\ Len(str) = 4
    /\ LET r == ChunkType_try_from(str)
       IN  ct' = IF r.tag = "Ok" THEN TypeOk(bytes(r.val)) ELSE TypeErr(r.err)
    /\ tpc' = "made"
    /\ UNCHANGED <<str, props, codecVars>>

\* the five queries on a constructed ChunkType
Classify ==
    /\ tpc = "made" /\ ct.tag = "Ok"
    /\ props' = [critical |-> is_critical(ct.val),
                 public |-> is_public(ct.val),
                 reserved_bit_valid |-> is_reserved_bit_valid(ct.val),
                 safe_to_copy |-> is_safe_to_copy(ct.val),
                 valid |-> is_valid(ct.val)]
    /\ tpc' = "classified"
    /\ UNCHANGED <<str, ct, codecVars>>

NextType == FromStr \/ TryFromBytes \/ Classify

SpecType == InitType /\ [][NextType]_vars


\* ================================================================ claims
Terminal == pc \in {"done", "panic"}
Returned == pc \in {"returned", "done", "panic"}
Upper == 65..90
Lower == 97..122
Letters == Upper \cup Lower
TestingChunk == Chunk_new(RuSt, Message)
KnownCrc == U32(43985, 55374)   \* 2882656334 = 43985 * 65536 + 55374

\* the declared length L of a buffer of at least 4 bytes has L + 12 > len
DeclaredExceeds(b) ==
    LET L == from_be_bytes(SubSeq(b, 1, 4))
    IN  L.hi > 0 \/ L.lo + 12 > Len(b)

\* C1: parsing the untouched serialization of Chunk::new(type, payload)
\* with try_from succeeds and returns that very chunk.
C1_RoundTrip ==
    (Terminal /\ made = Untouched) => (pc = "done" /\ tf = RetOk(chunk, <<>>))

C1_Witness ==
    /\ pc = "done" /\ made = Untouched
    /\ chunk.data # <<>> /\ tf = RetOk(chunk, <<>>)

\* C2: on the concatenation of two serialized chunks A and B the first
\* parse_next call returns (A, B.as_bytes()), the trailing bytes unconsumed
\* (the second call, on that remainder, is what would then return B).
C2_Streaming ==
    (Returned /\ made.kind = "concat") =>
        (pc # "panic" /\ pn = RetOk(chunk, as_bytes(second)))

\* C3: a buffer of at least 12 bytes with a letter-only type whose declared
\* length reaches past the buffer is rejected with the length error, and the
\* parse never panics on an out-of-range slice.
C3_LengthExceedsBufferRejected ==
    (Returned /\ Len(buf) >= 12
        /\ (\A i \in 5..8 : buf[i] \in Letters) /\ DeclaredExceeds(buf)) =>
        /\ pc # "panic"
        /\ pn.tag = "Err"
        /\ pn.err \in {ErrLengthExceedsBuffer, ErrTooLarge}

\* C4: one flipped bit in the payload or in the CRC field of a serialized
\* chunk makes try_from fail with the CRC mismatch error.
C4_TamperDetected ==
    (Terminal /\ made.kind = "flip" /\ made.pos > 8) =>
        (pc = "done" /\ tf = RetErr(ErrCrcMismatch))

C4_Witness ==
    /\ pc = "done" /\ made.kind = "flip"
    /\ made.pos > 8 /\ made.pos <= 8 + Len(chunk.data)
    /\ tf = RetErr(ErrCrcMismatch)

\* C5: try_from on a serialized chunk followed by extra bytes (or by a second
\* serialized chunk) fails with the trailing-data error.
C5_TrailingData ==
    (Terminal /\ made.kind \in {"extra", "concat"}) =>
        (pc = "done" /\ tf = RetErr(ErrTrailingData))

\* C6 (as stated): the chunk of type "RuSt" with the secret-message payload
\* has length() = 44 and crc() = 2882656334.
C6_KnownVector44 ==
    (pc = "built" /\ chunk = TestingChunk) =>
        (length(chunk) = U32FromInt(44) /\ crc(chunk) = KnownCrc)

\* C6 (amended): the chunk of type "RuSt" with the secret-message payload
\* has length() = 42 and crc() = 2882656334, and serializes both big-endian.
C6_KnownVector ==
    /\ (pc = "built" /\ chunk = TestingChunk) =>
          (length(chunk) = U32FromInt(42) /\ crc(chunk) = KnownCrc)
    /\ (pc = "input" /\ made = Untouched /\ chunk = TestingChunk) =>
          /\ SubSeq(buf, 1, 4) = <<0, 0, 0, 42>>
          /\ SubSeq(buf, Len(buf) - 3, Len(buf)) = <<171, 209, 216, 78>>

C6_Witness ==
    /\ pc = "input" /\ made = Untouched /\ chunk = TestingChunk
    /\ Len(buf) = 54

\* C7: for a constructed ChunkType, critical / public / reserved-bit-valid
\* hold iff byte 0 / 1 / 2 is uppercase, safe-to-copy iff byte 3 is
\* lowercase, and is_valid is the reserved-bit test alone.
C7_CaseBitMapping ==
    tpc = "classified" =>
        /\ props.critical = (ct.val[1] \in Upper)
        /\ props.public = (ct.val[2] \in Upper)
        /\ props.reserved_bit_valid = (ct.val[3] \in Upper)
        /\ props.safe_to_copy = (ct.val[4] \in Lower)
        /\ props.valid = (ct.val[3] \in Upper)

C7_Witness ==
    /\ tpc = "classified" /\ ct.val = RuSt
    /\ props = [critical |-> TRUE, public |-> FALSE,
                reserved_bit_valid |-> TRUE, safe_to_copy |-> TRUE,
                valid |-> TRUE]

\* C8: construction from 4 bytes fails with the invalid-character error iff
\* some byte is not a letter and otherwise keeps the bytes as they are;
\* from_str rejects every string that is not 4 bytes long.
C8_LettersOnly ==
    tpc \in {"made", "classified"} =>
        /\ Len(str) # 4 => ct.tag = "Err"
        /\ Len(str) = 4 =>
              /\ (ct = TypeErr(ErrInvalidCharacter))
                    <=> (\E i \in 1..4 : str[i] \notin Letters)
              /\ (ct = TypeOk(str))
                    <=> (\A i \in 1..4 : str[i] \in Letters)

C8_Witness ==
    /\ tpc = "made" /\ str = Rust /\ ct = TypeOk(Rust)

\* C9: parse_next runs size check, type validation, length check and CRC
\* comparison in this order and stops at the first failure: a short buffer is
\* TooShort, a non-letter type is rejected for the type whatever the CRC, the
\* CRC stage is reached only when the declared record fits the buffer, and
\* every run ends in Accept or Reject, never anywhere else.
C9_ParseOrder ==
    /\ (Returned /\ Len(buf) < 12) => pn = RetErr(ErrTooShort)
    /\ (Returned /\ Len(buf) >= 12 /\ (\E i \in 5..8 : buf[i] \notin Letters))
          => pn = RetErr(ErrInvalidCharacter)
    /\ pc = "p_crc" => ~DeclaredExceeds(buf)
    /\ pc # "panic"

\* C10: whenever parse_next accepts, the accepted chunk serialized again and
\* followed by the remainder is the input; so its length, type and CRC are
\* the fields of the input.
C10_InverseRoundTrip ==
    (pc \in {"returned", "done"} /\ pn.tag = "Ok") =>
        /\ as_bytes(pn.chunk) \o pn.rest = buf
        /\ length(pn.chunk) = from_be_bytes(SubSeq(buf, 1, 4))
        /\ bytes(pn.chunk.chunk_type) = SubSeq(buf, 5, 8)
        /\ to_be_bytes(crc(pn.chunk)) =
              SubSeq(buf, 9 + Len(pn.chunk.data), 12 + Len(pn.chunk.data))

C10_Witness ==
    /\ pc = "returned" /\ pn.tag = "Ok"
    /\ pn.chunk.data # <<>> /\ Len(buf) = 12 + Len(pn.chunk.data)

====
